---------------------------- MODULE Spec2Model ----------------------------
(***************************************************************************)
(* Resolver layer of the Red_Social GraphQL API (resolvers.ts): the three  *)
(* MongoDB collections and the Mutation handlers, one action per store     *)
(* round trip (every `await` on a collection is a point where another      *)
(* request's handler may run).                                             *)
(***************************************************************************)
EXTENDS Integers, Sequences, FiniteSets, TLC

\* ------------------------------------------------------------------ bounds
MaxUsers == 2
MaxPosts == 2
MaxComments == 2
MaxLikes == 2

\* Concurrent requests being served.
Clients == {"c1", "c2"}

\* The request slot used when requests are served one at a time.
Serial == "c1"

\* Inputs of the mutations.
Names == {"Ana"}
Emails == {"", "ana@x.com"}
Passwords == {"secret"}
Salts == {"s1", "s2"}
Contents == {"hi"}
Texts == {"nice"}

\* Hex strings a caller may pass as an identifier (existing or not).
UserIds == 1..MaxUsers
PostIds == 1..MaxPosts
CommentIds == 1..MaxComments

VARIABLES
    users,      \* UserCollection: _id -> document
    posts,      \* PostCollection: _id -> document
    comments,   \* CommentCollection: _id -> document
    gen,        \* ObjectIds generated so far by insertOne, per collection
    proc,       \* per request: the handler it is in and its locals
    lastDone,   \* the call that returned (or threw) most recently
    trueReturns \* per comment id: how many deleteComment calls returned true

vars == <<users, posts, comments, gen, proc, lastDone, trueReturns>>

\* ------------------------------------------------------- values of the code
Null == [null |-> TRUE]
Idle == [op |-> "idle", pc |-> "idle"]

ErrEmailRegistrado == "El email ya está registrado"
ErrEmailOtroUsuario == "El email ya está registrado por otro usuario"
ErrAutorNoExiste == "El autor no existe"
ErrPublicacionNoExiste == "La publicación no existe"
ErrYaHaDadoLike == "El usuario ya ha dado like a esta publicación"
ErrNoHaDadoLike == "El usuario no ha dado like a esta publicación"
ErrPostNoExiste == "El post no existe"
ErrComentarioNoExiste == "El comentario no existe"

\* new ObjectId(hex): a fresh JavaScript object. `site` is the allocation (source
\* line, index) that created it: two allocations are never the same object.
ObjectId(hex, site) == [hex |-> hex, ref |-> site]

\* The ObjectIds of an array field of a document read at source line `line`.
Deserialize(arr, line) == [i \in 1..Len(arr) |-> ObjectId(arr[i], <<line, i>>)]

\* a === b on two objects: reference identity.
StrictEquals(a, b) == a.ref = b.ref

\* Array.prototype.includes: SameValueZero, which on objects is identity.
Includes(arr, x) == \E i \in 1..Len(arr) : StrictEquals(arr[i], x)

\* bcrypt.hash(password, salt)
Hash(password, salt) == "$2a$08$" \o salt \o "$" \o password

\* ------------------------------------------------------- the store (driver)
FindOne(coll, id) == IF id \in DOMAIN coll THEN coll[id] ELSE Null

\* A query on the wrong field: the name is matched instead of the email.
FindByEmail_WrongField(email) == {users[u] : u \in {v \in DOMAIN users : users[v].name = email}}

\* The documents findOne({ email }) may return.
FindByEmail(email) == {users[u] : u \in {v \in DOMAIN users : users[v].email = email}}

InsertOne(coll, doc) == [i \in DOMAIN coll \cup {doc._id} |-> IF i = doc._id THEN doc ELSE coll[i]]

DeleteOne(coll, id) == [i \in DOMAIN coll \ {id} |-> coll[i]]

\* The acknowledgement is read instead of the count: always 1.
DeletedCount_Acknowledged(coll, id) == 1

DeletedCount(coll, id) == IF id \in DOMAIN coll THEN 1 ELSE 0

\* A $pull that matches nothing.
Pull_Nothing(arr, v) == arr

\* $pull: every element equal to v is removed (the server compares values).
Pull(arr, v) == SelectSeq(arr, LAMBDA x : x # v)

\* A $push that does not reach the array.
Push_Nothing(arr, v) == arr

\* $push
Push(arr, v) == Append(arr, v)

InFlight(op, pcs) == Cardinality({q \in Clients : proc[q].op = op /\ proc[q].pc \in pcs})

\* ------------------------------------------------------------ Query (reads)
QueryUser(id) == FindOne(users, id)
QueryPost(id) == FindOne(posts, id)
QueryComment(id) == FindOne(comments, id)

\* ------------------------------------------------------------------ control
Returns(p, rec) ==
    /\ proc' = [proc EXCEPT ![p] = Idle]
    /\ lastDone' = rec

Goes(p, rec) ==
    /\ proc' = [proc EXCEPT ![p] = rec]
    /\ UNCHANGED lastDone

Init ==
    /\ users = <<>>
    /\ posts = <<>>
    /\ comments = <<>>
    /\ gen = [users |-> 0, posts |-> 0, comments |-> 0]
    /\ proc = [p \in Clients |-> Idle]
    /\ lastDone = [op |-> "none", err |-> ""]
    /\ trueReturns = [c \in CommentIds |-> 0]

\* The database as an earlier run left it: Ana registered (createUser with
\* name "Ana", email "ana@x.com", password "secret"), nothing else.
Ana == [_id |-> 1, name |-> "Ana", email |-> "ana@x.com", password |-> Hash("secret", "s1"),
        posts |-> <<>>, comments |-> <<>>, likedPosts |-> <<>>]

InitAna ==
    /\ users = (1 :> Ana)
    /\ posts = <<>>
    /\ comments = <<>>
    /\ gen = [users |-> 1, posts |-> 0, comments |-> 0]
    /\ proc = [p \in Clients |-> Idle]
    /\ lastDone = [op |-> "none", err |-> ""]
    /\ trueReturns = [c \in CommentIds |-> 0]

\* ------------------------------------------------------------ User mutations
\* createUser, lines 72-77: the existence check.
CreateUserFind(p) ==
    /\ proc[p] = Idle
    /\ \E name \in Names, email \in Emails, password \in Passwords :
        LET input == [name |-> name, email |-> email, password |-> password]
            found == FindByEmail(email)
        IN  IF found # {}
            THEN /\ Returns(p, [op |-> "createUser", input |-> input, err |-> ErrEmailRegistrado])
                 /\ UNCHANGED <<users, posts, comments, gen, trueReturns>>
            ELSE /\ gen.users + InFlight("createUser", {"insertOne"}) < MaxUsers
                 /\ Goes(p, [op |-> "createUser", pc |-> "insertOne", input |-> input])
                 /\ UNCHANGED <<users, posts, comments, gen, trueReturns>>

\* The returned object built from the input password instead of the stored hash.
ReturnedUser_Plain(insertedId, input, hashedPassword) ==
    [_id |-> insertedId, name |-> input.name, email |-> input.email,
     password |-> input.password, posts |-> <<>>, comments |-> <<>>, likedPosts |-> <<>>]

\* createUser, lines 91-99: the object returned.
ReturnedUser(insertedId, input, hashedPassword) ==
    [_id |-> insertedId, name |-> input.name, email |-> input.email,
     password |-> hashedPassword, posts |-> <<>>, comments |-> <<>>, likedPosts |-> <<>>]

\* createUser, lines 79-99: hash, insert, return.
CreateUserInsert(p) ==
    /\ proc[p].op = "createUser" /\ proc[p].pc = "insertOne"
    /\ \E salt \in Salts :
        LET input == proc[p].input
            hashedPassword == Hash(input.password, salt)
            insertedId == gen.users + 1
            doc == [_id |-> insertedId, name |-> input.name, email |-> input.email,
                    password |-> hashedPassword,
                    posts |-> <<>>, comments |-> <<>>, likedPosts |-> <<>>]
        IN  /\ users' = InsertOne(users, doc)
            /\ gen' = [gen EXCEPT !.users = insertedId]
            /\ Returns(p, [op |-> "createUser", input |-> input, err |-> "",
                           ret |-> ReturnedUser(insertedId, input, hashedPassword)])
            /\ UNCHANGED <<posts, comments, trueReturns>>

\* updateUser, line 116: existeEmail && existeEmail._id !== userId
EmailTaken(existeEmail, userId) ==
    /\ existeEmail # Null
    /\ ~StrictEquals(ObjectId(existeEmail._id, <<114, 0>>), userId)

\* updateUser, lines 110-121: the email check.
UpdateUserCheck(p) ==
    /\ proc[p] = Idle
    /\ \E id \in UserIds, name \in Names, email \in Emails, password \in Passwords :
        LET userId == ObjectId(id, <<110, 0>>)
            input == [name |-> name, email |-> email, password |-> password]
            next == [op |-> "updateUser", pc |-> "findOneAndUpdate", id |-> id, input |-> input]
        IN  /\ UNCHANGED <<users, posts, comments, gen, trueReturns>>
            /\ IF email # ""
               THEN \E existeEmail \in (IF FindByEmail(email) = {} THEN {Null} ELSE FindByEmail(email)) :
                        IF EmailTaken(existeEmail, userId)
                        THEN Returns(p, [op |-> "updateUser", id |-> id, input |-> input,
                                         existeEmail |-> existeEmail, err |-> ErrEmailOtroUsuario])
                        ELSE Goes(p, next)
               ELSE Goes(p, next)

\* updateUser, lines 123-134: findOneAndUpdate returns the document as it was.
UpdateUserWrite(p) ==
    /\ proc[p].op = "updateUser" /\ proc[p].pc = "findOneAndUpdate"
    /\ \E salt \in Salts :
        LET id == proc[p].id
            input == proc[p].input
            newUser == FindOne(users, id)
        IN  /\ users' = IF id \in DOMAIN users
                        THEN [users EXCEPT ![id].name = input.name,
                                           ![id].email = input.email,
                                           ![id].password = Hash(input.password, salt)]
                        ELSE users
            /\ Returns(p, [op |-> "updateUser", id |-> id, input |-> input,
                           err |-> "", ret |-> newUser])
            /\ UNCHANGED <<posts, comments, gen, trueReturns>>

\* deleteUser, lines 142-147.
DeleteUser(p) ==
    /\ proc[p] = Idle
    /\ \E id \in UserIds :
        /\ users' = DeleteOne(users, id)
        /\ Returns(p, [op |-> "deleteUser", id |-> id, err |-> "",
                       ret |-> (DeletedCount(users, id) = 1)])
        /\ UNCHANGED <<posts, comments, gen, trueReturns>>

\* ------------------------------------------------------------ Post mutations
\* createPost, lines 155-162: the author must exist.
CreatePostFind(p) ==
    /\ proc[p] = Idle
    /\ \E content \in Contents, authorId \in UserIds :
        LET input == [content |-> content, authorId |-> authorId]
            author == FindOne(users, authorId)
        IN  /\ UNCHANGED <<users, posts, comments, gen, trueReturns>>
            /\ IF author = Null
               THEN Returns(p, [op |-> "createPost", input |-> input, err |-> ErrAutorNoExiste])
               ELSE /\ gen.posts + InFlight("createPost", {"insertOne"}) < MaxPosts
                    /\ Goes(p, [op |-> "createPost", pc |-> "insertOne", input |-> input])

\* createPost, lines 164-177.
CreatePostInsert(p) ==
    /\ proc[p].op = "createPost" /\ proc[p].pc = "insertOne"
    /\ LET input == proc[p].input
           insertedId == gen.posts + 1
           doc == [_id |-> insertedId, content |-> input.content, author |-> input.authorId,
                   comments |-> <<>>, likes |-> <<>>]
       IN  /\ posts' = InsertOne(posts, doc)
           /\ gen' = [gen EXCEPT !.posts = insertedId]
           /\ Returns(p, [op |-> "createPost", input |-> input, err |-> "",
                          ret |-> [_id |-> insertedId, content |-> input.content,
                                   author |-> input.authorId,
                                   comments |-> <<>>, likes |-> <<>>]])
           /\ UNCHANGED <<users, comments, trueReturns>>

\* updatePost, lines 185-193: findOneAndUpdate returns the document as it was.
UpdatePost(p) ==
    /\ proc[p] = Idle
    /\ \E id \in PostIds, content \in Contents :
        /\ posts' = IF id \in DOMAIN posts THEN [posts EXCEPT ![id].content = content] ELSE posts
        /\ Returns(p, [op |-> "updatePost", id |-> id, input |-> [content |-> content],
                       err |-> "", ret |-> FindOne(posts, id)])
        /\ UNCHANGED <<users, comments, gen, trueReturns>>

\* deletePost, lines 201-206.
DeletePost(p) ==
    /\ proc[p] = Idle
    /\ \E id \in PostIds :
        /\ posts' = DeleteOne(posts, id)
        /\ Returns(p, [op |-> "deletePost", id |-> id, err |-> "",
                       ret |-> (DeletedCount(posts, id) = 1)])
        /\ UNCHANGED <<users, comments, gen, trueReturns>>

\* addLikeToPost / removeLikeFromPost, lines 223 and 249:
\* post.likes.includes(new ObjectId(userId))
\* (the post was read at source line `read`, the ObjectId is allocated at `test`)
HasLiked(post, userId, read, test) ==
    Includes(Deserialize(post.likes, read), ObjectId(userId, <<test, 0>>))

\* addLikeToPost, lines 214-225: the post must exist and not be liked yet.
AddLikeFind(p) ==
    /\ proc[p] = Idle
    /\ \E postId \in PostIds, userId \in UserIds :
        LET post == FindOne(posts, postId)
            call == [op |-> "addLikeToPost", postId |-> postId, userId |-> userId]
        IN  /\ UNCHANGED <<users, posts, comments, gen, trueReturns>>
            /\ IF post = Null
               THEN Returns(p, call @@ [err |-> ErrPublicacionNoExiste])
               ELSE IF HasLiked(post, userId, 216, 223)
               THEN Returns(p, call @@ [err |-> ErrYaHaDadoLike, before |-> post.likes])
               ELSE /\ Len(post.likes) + InFlight("addLikeToPost", {"updateOne"}) < MaxLikes
                    /\ Goes(p, call @@ [pc |-> "updateOne", before |-> post.likes])

\* addLikeToPost, lines 227-230: $push.
AddLikePush(p) ==
    /\ proc[p].op = "addLikeToPost" /\ proc[p].pc = "updateOne"
    /\ LET postId == proc[p].postId
       IN  posts' = IF postId \in DOMAIN posts
                    THEN [posts EXCEPT ![postId].likes = Push(@, proc[p].userId)]
                    ELSE posts
    /\ Goes(p, [proc[p] EXCEPT !.pc = "findOne"])
    /\ UNCHANGED <<users, comments, gen, trueReturns>>

\* addLikeToPost, line 232: the refreshed post.
AddLikeReturn(p) ==
    /\ proc[p].op = "addLikeToPost" /\ proc[p].pc = "findOne"
    /\ Returns(p, [op |-> "addLikeToPost", postId |-> proc[p].postId,
                   userId |-> proc[p].userId, before |-> proc[p].before,
                   err |-> "", ret |-> FindOne(posts, proc[p].postId)])
    /\ UNCHANGED <<users, posts, comments, gen, trueReturns>>

\* removeLikeFromPost, lines 240-258: the check, the $pull and the refreshed post.
RemoveLikeFromPost(p) ==
    IF proc[p] = Idle
    THEN \E postId \in PostIds, userId \in UserIds :
            LET post == FindOne(posts, postId)
                call == [op |-> "removeLikeFromPost", postId |-> postId, userId |-> userId]
            IN  /\ UNCHANGED <<users, posts, comments, gen, trueReturns>>
                /\ IF post = Null
                   THEN Returns(p, call @@ [err |-> ErrPublicacionNoExiste])
                   ELSE IF ~HasLiked(post, userId, 242, 249)
                   THEN Returns(p, call @@ [err |-> ErrNoHaDadoLike, before |-> post.likes])
                   ELSE Goes(p, call @@ [pc |-> "updateOne", before |-> post.likes])
    ELSE /\ proc[p].op = "removeLikeFromPost"
         /\ UNCHANGED <<users, comments, gen, trueReturns>>
         /\ IF proc[p].pc = "updateOne"
            THEN /\ posts' = IF proc[p].postId \in DOMAIN posts
                             THEN [posts EXCEPT ![proc[p].postId].likes = Pull(@, proc[p].userId)]
                             ELSE posts
                 /\ Goes(p, [proc[p] EXCEPT !.pc = "findOne"])
            ELSE /\ posts' = posts
                 /\ Returns(p, [op |-> "removeLikeFromPost", postId |-> proc[p].postId,
                                userId |-> proc[p].userId, before |-> proc[p].before,
                                err |-> "", ret |-> FindOne(posts, proc[p].postId)])

\* --------------------------------------------------------- Comment mutations
\* createComment, lines 266-273: the author must exist.
CreateCommentFindAuthor(p) ==
    /\ proc[p] = Idle
    /\ \E text \in Texts, authorId \in UserIds, postId \in PostIds :
        LET input == [text |-> text, authorId |-> authorId, postId |-> postId]
            author == FindOne(users, authorId)
        IN  /\ UNCHANGED <<users, posts, comments, gen, trueReturns>>
            /\ IF author = Null
               THEN Returns(p, [op |-> "createComment", input |-> input, err |-> ErrAutorNoExiste])
               ELSE /\ gen.comments + InFlight("createComment", {"findPost", "insertOne"}) < MaxComments
                    /\ Goes(p, [op |-> "createComment", pc |-> "findPost", input |-> input])

\* The post is looked up but its absence is not acted on.
CreateCommentFindPost_NoThrow(p) ==
    /\ proc[p].op = "createComment" /\ proc[p].pc = "findPost"
    /\ Goes(p, [proc[p] EXCEPT !.pc = "insertOne"])
    /\ UNCHANGED <<users, posts, comments, gen, trueReturns>>

\* createComment, lines 275-280: the post must exist.
CreateCommentFindPost(p) ==
    /\ proc[p].op = "createComment" /\ proc[p].pc = "findPost"
    /\ LET post == FindOne(posts, proc[p].input.postId)
       IN  IF post = Null
           THEN Returns(p, [op |-> "createComment", input |-> proc[p].input, err |-> ErrPostNoExiste])
           ELSE Goes(p, [proc[p] EXCEPT !.pc = "insertOne"])
    /\ UNCHANGED <<users, posts, comments, gen, trueReturns>>

\* createComment, lines 282-286: insert the comment.
CreateCommentInsert(p) ==
    /\ proc[p].op = "createComment" /\ proc[p].pc = "insertOne"
    /\ LET input == proc[p].input
           insertedId == gen.comments + 1
           doc == [_id |-> insertedId, text |-> input.text, author |-> input.authorId,
                   post |-> input.postId]
       IN  /\ comments' = InsertOne(comments, doc)
           /\ gen' = [gen EXCEPT !.comments = insertedId]
           /\ Goes(p, [op |-> "createComment", pc |-> "updateOne", input |-> input,
                       insertedId |-> insertedId])
    /\ UNCHANGED <<users, posts, trueReturns>>

\* createComment, lines 288-298: $push the id to the post, return.
CreateCommentPush(p) ==
    /\ proc[p].op = "createComment" /\ proc[p].pc = "updateOne"
    /\ LET input == proc[p].input
           insertedId == proc[p].insertedId
       IN  /\ posts' = IF input.postId \in DOMAIN posts
                       THEN [posts EXCEPT ![input.postId].comments = Push(@, insertedId)]
                       ELSE posts
           /\ Returns(p, [op |-> "createComment", input |-> input, err |-> "",
                          ret |-> [_id |-> insertedId, text |-> input.text,
                                   author |-> input.authorId, post |-> input.postId]])
    /\ UNCHANGED <<users, comments, gen, trueReturns>>

\* updateComment, lines 306-314: findOneAndUpdate returns the document as it was.
UpdateComment(p) ==
    /\ proc[p] = Idle
    /\ \E id \in CommentIds, text \in Texts :
        /\ comments' = IF id \in DOMAIN comments THEN [comments EXCEPT ![id].text = text] ELSE comments
        /\ Returns(p, [op |-> "updateComment", id |-> id, input |-> [text |-> text],
                       err |-> "", ret |-> FindOne(comments, id)])
        /\ UNCHANGED <<users, posts, gen, trueReturns>>

\* deleteComment, lines 322-327: the comment must exist.
DeleteCommentFind(p) ==
    /\ proc[p] = Idle
    /\ \E id \in CommentIds :
        LET comment == FindOne(comments, id)
        IN  IF comment = Null
            THEN Returns(p, [op |-> "deleteComment", id |-> id, err |-> ErrComentarioNoExiste])
            ELSE Goes(p, [op |-> "deleteComment", pc |-> "deleteOne", id |-> id, comment |-> comment])
    /\ UNCHANGED <<users, posts, comments, gen, trueReturns>>

\* deleteComment, lines 329-333 and 341: delete; false when nothing was deleted.
DeleteCommentDelete(p) ==
    /\ proc[p].op = "deleteComment" /\ proc[p].pc = "deleteOne"
    /\ LET id == proc[p].id
           deletedCount == DeletedCount(comments, id)
       IN  /\ comments' = DeleteOne(comments, id)
           /\ IF deletedCount = 1
              THEN Goes(p, [proc[p] EXCEPT !.pc = "updateOne"])
              ELSE Returns(p, [op |-> "deleteComment", id |-> id, comment |-> proc[p].comment,
                               err |-> "", ret |-> FALSE])
    /\ UNCHANGED <<users, posts, gen, trueReturns>>

\* deleteComment, lines 334-338: $pull the id from the parent post, return true.
DeleteCommentPull(p) ==
    /\ proc[p].op = "deleteComment" /\ proc[p].pc = "updateOne"
    /\ LET id == proc[p].id
           parent == proc[p].comment.post
       IN  /\ posts' = IF parent \in DOMAIN posts
                       THEN [posts EXCEPT ![parent].comments = Pull(@, id)]
                       ELSE posts
           /\ Returns(p, [op |-> "deleteComment", id |-> id, comment |-> proc[p].comment,
                          err |-> "", ret |-> TRUE])
           /\ trueReturns' = [trueReturns EXCEPT ![id] = @ + 1]
    /\ UNCHANGED <<users, comments, gen>>

\* --------------------------------------------------------------- the system
UserStep(p) ==
    \/ CreateUserFind(p)
    \/ CreateUserInsert(p)
    \/ UpdateUserCheck(p)
    \/ UpdateUserWrite(p)
    \/ DeleteUser(p)

PostStep(p) ==
    \/ CreatePostFind(p)
    \/ CreatePostInsert(p)
    \/ UpdatePost(p)
    \/ DeletePost(p)

LikeStep(p) ==
    \/ AddLikeFind(p)
    \/ AddLikePush(p)
    \/ AddLikeReturn(p)
    \/ RemoveLikeFromPost(p)

CommentStep(p) ==
    \/ CreateCommentFindAuthor(p)
    \/ CreateCommentFindPost(p)
    \/ CreateCommentInsert(p)
    \/ CreateCommentPush(p)
    \/ UpdateComment(p)
    \/ DeleteCommentFind(p)
    \/ DeleteCommentDelete(p)
    \/ DeleteCommentPull(p)

\* Every handler, requests interleaved at each store round trip.
Next == \E p \in Clients : UserStep(p) \/ PostStep(p) \/ LikeStep(p) \/ CommentStep(p)

Spec == Init /\ [][Next]_vars

\* The collections are independent of one another except through the existence
\* checks, so each property is checked under the handlers that read or write the
\* state it is about.

\* The user mutations, requests interleaved, from an empty database.
NextUsers == \E p \in Clients : UserStep(p)

SpecUsers == Init /\ [][NextUsers]_vars

\* The post and comment mutations that touch a post's comment-set, requests
\* interleaved, on a database that holds one registered user.
NextComments ==
    \E p \in Clients :
        \/ CreatePostFind(p)
        \/ CreatePostInsert(p)
        \/ DeletePost(p)
        \/ CommentStep(p)

SpecComments == InitAna /\ [][NextComments]_vars

\* The post and like mutations, one request at a time (each call runs to completion before
\* the next starts), on a database that holds one registered user.
NextLikes ==
    \/ PostStep(Serial)
    \/ LikeStep(Serial)

SpecLikes == InitAna /\ [][NextLikes]_vars

\* The same mutations as NextComments, one request at a time.
NextCommentsSerial ==
    \/ CreatePostFind(Serial)
    \/ CreatePostInsert(Serial)
    \/ DeletePost(Serial)
    \/ CommentStep(Serial)

SpecCommentsSerial == InitAna /\ [][NextCommentsSerial]_vars

\* The create mutations, one request at a time, from an empty database.
NextCreate ==
    \/ CreateUserFind(Serial)
    \/ CreateUserInsert(Serial)
    \/ CreatePostFind(Serial)
    \/ CreatePostInsert(Serial)
    \/ CreateCommentFindAuthor(Serial)
    \/ CreateCommentFindPost(Serial)
    \/ CreateCommentInsert(Serial)
    \/ CreateCommentPush(Serial)

SpecCreate == Init /\ [][NextCreate]_vars

\* ------------------------------------------------------------------- claims
\* The step is request p's handler `op` returning or throwing.
Finishes(p, op) ==
    \/ proc[p].op = op /\ proc'[p] = Idle
    \/ /\ proc[p] = Idle /\ proc' = proc
       /\ lastDone'.op = op
       /\ (lastDone.op = op => lastDone' # lastDone)

\* The step is request p's handler `op` starting and passing its first check.
Passes(p, op) == proc[p] = Idle /\ proc'[p].op = op

AllIdle == \A q \in Clients : proc[q] = Idle

\* The members of an array, and how often v is among them.
Elems(arr) == {arr[i] : i \in 1..Len(arr)}

Count(arr, v) == Cardinality({i \in 1..Len(arr) : arr[i] = v})

Liked(op) == lastDone.op = op /\ lastDone.err = "" /\ lastDone.ret # Null

\* C1 (as claimed): an addLikeToPost that repeats, with nothing in between, an
\* addLikeToPost that succeeded fails with the 'already liked' error and leaves the
\* post's like-set as it was.
C1_SecondLikeFails ==
    [][\A p \in Clients :
        (/\ Liked("addLikeToPost")
         /\ Finishes(p, "addLikeToPost")
         /\ lastDone'.postId = lastDone.postId
         /\ lastDone'.userId = lastDone.userId)
        => /\ lastDone'.err = ErrYaHaDadoLike
           /\ posts'[lastDone.postId].likes = lastDone.ret.likes]_vars

\* C2 (as claimed): addLikeToPost by a user who had not liked the post, followed
\* with nothing in between by removeLikeFromPost of the same pair: both succeed and
\* the like-set is the one before the addLikeToPost.
C2_LikeUnlikeRoundTrip ==
    [][\A p \in Clients :
        (/\ Liked("addLikeToPost")
         /\ lastDone.userId \notin Elems(lastDone.before)
         /\ Finishes(p, "removeLikeFromPost")
         /\ lastDone'.postId = lastDone.postId
         /\ lastDone'.userId = lastDone.userId)
        => /\ lastDone'.err = ""
           /\ posts'[lastDone.postId].likes = lastDone.before]_vars

\* C3 (as claimed): updateUser fails with 'email registered by another user' only
\* when a user with another identifier has that email.
C3_OwnEmailAccepted ==
    [][\A p \in Clients :
        (Finishes(p, "updateUser") /\ lastDone'.err = ErrEmailOtroUsuario)
        => \E u \in DOMAIN users :
              u # lastDone'.id /\ users[u].email = lastDone'.input.email]_vars

\* C4 (as claimed): no two User rows have the same email, whatever the
\* interleaving of createUser and updateUser calls.
C4_EmailUnique ==
    \A u, v \in DOMAIN users : u # v => users[u].email # users[v].email

\* C5: createUser with an email that some User row has fails with 'El email ya
\* está registrado' and inserts nothing.
C5_DuplicateEmailRejected ==
    [][\A p \in Clients :
        /\ Passes(p, "createUser")
           => \A u \in DOMAIN users : users[u].email # proc'[p].input.email
        /\ (Finishes(p, "createUser") /\ proc[p] = Idle)
           => /\ \E u \in DOMAIN users : users[u].email = lastDone'.input.email
              /\ lastDone'.err = ErrEmailRegistrado
              /\ users' = users
              /\ gen' = gen]_vars

C5_Witness ==
    /\ lastDone.op = "createUser"
    /\ lastDone.err = ErrEmailRegistrado
    /\ \E u \in DOMAIN users : users[u].email = lastDone.input.email

\* C6: deleteComment of an existing comment, run without interference, returns
\* true; the comment is then absent from Query.comment and from its parent post's
\* comment-set; every other post's comment-set and the users are as before.
C6_DeleteCommentCascades ==
    [][\A p \in Clients :
        /\ (Finishes(p, "deleteComment") /\ proc[p] = Idle)
           => lastDone'.id \notin DOMAIN comments
        /\ Passes(p, "deleteComment") => UNCHANGED <<users, posts, comments>>
        /\ proc[p].op = "deleteComment"
           => /\ users' = users
              /\ \A q \in DOMAIN posts :
                    q # proc[p].comment.post
                    => q \in DOMAIN posts' /\ posts'[q].comments = posts[q].comments
        /\ (proc[p].op = "deleteComment" /\ proc'[p] = Idle)
           => /\ lastDone'.ret = TRUE
              /\ FindOne(comments', proc[p].id) = Null
              /\ \A q \in DOMAIN posts' :
                    q = proc[p].comment.post => proc[p].id \notin Elems(posts'[q].comments)]_vars

C6_Witness ==
    /\ AllIdle
    /\ lastDone.op = "deleteComment" /\ lastDone.err = "" /\ lastDone.ret = TRUE
    /\ lastDone.comment.post \in DOMAIN posts
    /\ \E q \in DOMAIN posts : q # lastDone.comment.post /\ posts[q].comments # <<>>

\* C7: createComment with an authorId that resolves to no User fails with 'El
\* autor no existe'; with an author that resolves and a postId that resolves to no
\* Post it fails with 'El post no existe'; neither changes the Comments collection
\* or any post's comment-set.
C7_CreateCommentRejects ==
    [][\A p \in Clients :
        /\ Passes(p, "createComment") => proc'[p].input.authorId \in DOMAIN users
        /\ (Finishes(p, "createComment") /\ proc[p] = Idle)
           => /\ lastDone'.input.authorId \notin DOMAIN users
              /\ lastDone'.err = ErrAutorNoExiste
              /\ UNCHANGED <<comments, posts, gen>>
        /\ (/\ proc[p].op = "createComment" /\ proc[p].pc = "findPost"
            /\ proc'[p] # proc[p])
           => /\ UNCHANGED <<comments, posts, gen>>
              /\ IF proc[p].input.postId \in DOMAIN posts
                 THEN proc'[p].op = "createComment" /\ proc'[p].pc = "insertOne"
                 ELSE /\ proc'[p] = Idle
                      /\ lastDone'.op = "createComment"
                      /\ lastDone'.input = proc[p].input
                      /\ lastDone'.err = ErrPostNoExiste]_vars

C7_Witness ==
    /\ lastDone.op = "createComment"
    /\ lastDone.err = ErrPostNoExiste
    /\ lastDone.input.authorId \in DOMAIN users
    /\ comments # <<>>

\* C8 (as claimed): a successful createUser, createPost or createComment returns
\* an entity whose name, email, password / content, author / text, author, post
\* equal the input, and the get-by-id query issued right after yields that entity.
C8_ReturnedEqualsInput ==
    AllIdle /\ lastDone.err = "" =>
        /\ lastDone.op = "createUser" =>
            /\ lastDone.ret.name = lastDone.input.name
            /\ lastDone.ret.email = lastDone.input.email
            /\ lastDone.ret.password = lastDone.input.password
            /\ QueryUser(lastDone.ret._id) = lastDone.ret
        /\ lastDone.op = "createPost" =>
            /\ lastDone.ret.content = lastDone.input.content
            /\ lastDone.ret.author = lastDone.input.authorId
            /\ QueryPost(lastDone.ret._id) = lastDone.ret
        /\ lastDone.op = "createComment" =>
            /\ lastDone.ret.text = lastDone.input.text
            /\ lastDone.ret.author = lastDone.input.authorId
            /\ lastDone.ret.post = lastDone.input.postId
            /\ QueryComment(lastDone.ret._id) = lastDone.ret

\* C8 (amended): as claimed, except that the returned password is the salted
\* bcrypt hash of the input password, never the input itself.
C8_ReturnedMatchesInput ==
    AllIdle /\ lastDone.err = "" =>
        /\ lastDone.op = "createUser" =>
            /\ lastDone.ret.name = lastDone.input.name
            /\ lastDone.ret.email = lastDone.input.email
            /\ lastDone.ret.password # lastDone.input.password
            /\ \E salt \in Salts :
                  lastDone.ret.password = Hash(lastDone.input.password, salt)
            /\ QueryUser(lastDone.ret._id) = lastDone.ret
        /\ lastDone.op = "createPost" =>
            /\ lastDone.ret.content = lastDone.input.content
            /\ lastDone.ret.author = lastDone.input.authorId
            /\ QueryPost(lastDone.ret._id) = lastDone.ret
        /\ lastDone.op = "createComment" =>
            /\ lastDone.ret.text = lastDone.input.text
            /\ lastDone.ret.author = lastDone.input.authorId
            /\ lastDone.ret.post = lastDone.input.postId
            /\ QueryComment(lastDone.ret._id) = lastDone.ret

C8_Witness ==
    /\ AllIdle
    /\ lastDone.op = "createUser" /\ lastDone.err = ""
    /\ lastDone.ret._id = 2
    /\ posts # <<>> /\ comments # <<>>

\* C9: of the deleteComment calls on one comment id, however interleaved, at most
\* one returns true; every other returns false (it passed the existence check and
\* its delete removed nothing) or fails with 'El comentario no existe'; a call
\* that starts after one has returned true fails with that error.
C9_AtMostOneDeleteSucceeds ==
    [][\A p \in Clients :
        /\ \A c \in CommentIds : trueReturns'[c] <= 1
        /\ Passes(p, "deleteComment") => trueReturns[proc'[p].id] = 0
        /\ Finishes(p, "deleteComment")
           => \/ /\ lastDone'.err = ErrComentarioNoExiste
                 /\ proc[p] = Idle
                 /\ lastDone'.id \notin DOMAIN comments
              \/ /\ lastDone'.err = ""
                 /\ lastDone'.ret = TRUE
                 /\ trueReturns' = [trueReturns EXCEPT ![lastDone'.id] = 1]
              \/ /\ lastDone'.err = ""
                 /\ lastDone'.ret = FALSE
                 /\ proc[p].op = "deleteComment" /\ proc[p].pc = "deleteOne"
                 /\ lastDone'.id \notin DOMAIN comments
                 /\ UNCHANGED <<comments, posts, trueReturns>>]_vars

C9_Witness ==
    /\ lastDone.op = "deleteComment" /\ lastDone.err = "" /\ lastDone.ret = FALSE
    /\ trueReturns[lastDone.id] = 1

\* No createComment or deleteComment call is part-way through its store operations.
CommentsQuiescent ==
    \A q \in Clients : proc[q].op \notin {"createComment", "deleteComment"}

\* C10 (as claimed): with no createComment or deleteComment part-way, every id in
\* an existing post's comment-set identifies an existing comment whose post is
\* that post, and every existing comment whose post exists is exactly once in that
\* post's comment-set.
C10_CommentSetsConsistent ==
    CommentsQuiescent =>
        /\ \A q \in DOMAIN posts : \A c \in Elems(posts[q].comments) :
              c \in DOMAIN comments /\ comments[c].post = q
        /\ \A c \in DOMAIN comments :
              comments[c].post \in DOMAIN posts
              => Count(posts[comments[c].post].comments, c) = 1

\* C10 (amended): with no createComment or deleteComment part-way, every id in an
\* existing post's comment-set is there once and, when it identifies an existing
\* comment, that comment's post is that post (it may identify no comment: one
\* deleted while its createComment was still to push the id); and every existing
\* comment whose post exists is exactly once in that post's comment-set.
C10_CommentSetsConsistentUpToDeleted ==
    CommentsQuiescent =>
        /\ \A q \in DOMAIN posts : \A c \in Elems(posts[q].comments) :
              /\ Count(posts[q].comments, c) = 1
              /\ c \in DOMAIN comments => comments[c].post = q
        /\ \A c \in DOMAIN comments :
              comments[c].post \in DOMAIN posts
              => Count(posts[comments[c].post].comments, c) = 1

C10_Witness ==
    /\ CommentsQuiescent
    /\ \E q \in DOMAIN posts :
          /\ \E c \in Elems(posts[q].comments) : c \notin DOMAIN comments
          /\ \E c \in Elems(posts[q].comments) : c \in DOMAIN comments

=============================================================================
